---- MODULE Spec2Model ----
(***************************************************************************)
(* Hydropower reservoir dispatch and resource-adequacy sweep of            *)
(* climapower/modules/resource_adequacy_utilities.py.                      *)
(*                                                                         *)
(* Numbers.  The code computes in floating point.  A number is modelled as *)
(* an exact fraction [n |-> numerator, d |-> denominator] in lowest terms  *)
(* with d > 0, extended by the three special values floating point         *)
(* produces on a division by zero: NaN = 0/0, +Inf = 1/0, -Inf = -1/0.     *)
(* Rounding is not modelled: every finite result is exact.  Common factors *)
(* are divided out before multiplying, to keep the integers small.         *)
(*                                                                         *)
(* A scalar reservoir state is the one-element tuple <<level>>; the state  *)
(* of the pumped-storage configuration is <<upstream, downstream>>.        *)
(***************************************************************************)
EXTENDS Integers, Sequences, FiniteSets, TLC

----------------------------------------------------------------------------
(* Arithmetic of the numeric library (floats with NaN and infinities).     *)

Abs(i) == IF i < 0 THEN -i ELSE i

Sign(i) == IF i < 0 THEN -1 ELSE IF i > 0 THEN 1 ELSE 0

RECURSIVE GCD(_, _)
GCD(a, b) == IF b = 0 THEN a ELSE GCD(b, a % b)

NaN == [n |-> 0, d |-> 0]

Inf(s) == [n |-> s, d |-> 0]

\* n/d with d # 0, in lowest terms and with a positive denominator.
Frac(n, d) ==
    LET g == GCD(Abs(n), Abs(d))
        s == Sign(d)
    IN  [n |-> (s * n) \div g, d |-> (s * d) \div g]

Q(i) == [n |-> i, d |-> 1]

IsNaN(x) == x.d = 0 /\ x.n = 0

IsInf(x) == x.d = 0 /\ x.n # 0

RNeg(x) == [n |-> -x.n, d |-> x.d]

RAdd(x, y) ==
    IF IsNaN(x) \/ IsNaN(y) THEN NaN
    ELSE IF IsInf(x) /\ IsInf(y) THEN (IF x.n = y.n THEN x ELSE NaN)
    ELSE IF IsInf(x) THEN x
    ELSE IF IsInf(y) THEN y
    ELSE LET g == GCD(x.d, y.d)
         IN  Frac(x.n * (y.d \div g) + y.n * (x.d \div g), (x.d \div g) * y.d)

RSub(x, y) == RAdd(x, RNeg(y))

RMul(x, y) ==
    IF IsNaN(x) \/ IsNaN(y) THEN NaN
    ELSE IF IsInf(x) \/ IsInf(y)
         THEN (IF x.n = 0 \/ y.n = 0 THEN NaN ELSE Inf(Sign(x.n) * Sign(y.n)))
    ELSE LET g == GCD(Abs(x.n), y.d)
             h == GCD(Abs(y.n), x.d)
         IN  Frac((x.n \div g) * (y.n \div h), (x.d \div h) * (y.d \div g))

\* Division as numpy does it: x/0 is an infinity of x's sign, 0/0 is NaN;
\* nothing is raised.
RDiv(x, y) ==
    IF IsNaN(x) \/ IsNaN(y) THEN NaN
    ELSE IF IsInf(x) THEN (IF IsInf(y) THEN NaN
                           ELSE Inf(x.n * (IF y.n < 0 THEN -1 ELSE 1)))
    ELSE IF IsInf(y) THEN Q(0)
    ELSE IF y.n = 0 THEN (IF x.n = 0 THEN NaN ELSE Inf(Sign(x.n)))
    ELSE LET g == GCD(Abs(x.n), Abs(y.n))
             h == GCD(x.d, y.d)
         IN  Frac((x.n \div g) * (y.d \div h), (x.d \div h) * (y.n \div g))

\* Comparisons: every comparison with NaN is false.
RLt(x, y) ==
    IF IsNaN(x) \/ IsNaN(y) THEN FALSE
    ELSE IF IsInf(x) /\ IsInf(y) THEN x.n < y.n
    ELSE LET g == GCD(x.d, y.d)
         IN  x.n * (y.d \div g) < y.n * (x.d \div g)

RGt(x, y) == RLt(y, x)

RLe(x, y) == ~IsNaN(x) /\ ~IsNaN(y) /\ ~RLt(y, x)

RGe(x, y) == RLe(y, x)

\* np.min / np.max of a list: NaN propagates.
RMin(x, y) == IF IsNaN(x) \/ IsNaN(y) THEN NaN ELSE IF RLt(y, x) THEN y ELSE x

RMax(x, y) == IF IsNaN(x) \/ IsNaN(y) THEN NaN ELSE IF RLt(x, y) THEN y ELSE x

RECURSIVE RSum(_)
RSum(s) == IF s = <<>> THEN Q(0) ELSE RAdd(Head(s), RSum(Tail(s)))

Last(s) == s[Len(s)]

----------------------------------------------------------------------------
(* Bounds and input sets of the model.                                     *)

\* Number of simulated hours of one run of the fold.
MaxHours == 3

\* Number of hours of an idle run (zero inflow, zero request).
IdleHours == 10

\* Hourly inflow values and requested generation values fed to the fold.
Inflows == {Q(0), Q(10)}

Requests == {Q(-15), Q(0), Q(5), Q(80)}

\* Upstream configurations <<lower bound, upper bound, initial level>>.
UpstreamConfigs ==
    { <<Q(l), Q(u), Q(s)>> : l \in {0, 20}, u \in {60, 100}, s \in {20, 50, 100} }

DownstreamConfigs ==
    { <<Q(l), Q(u), Q(s)>> : l \in {0, 5}, u \in {20}, s \in {5, 10, 20} }

InBounds(c) == RLe(c[1], c[3]) /\ RLe(c[3], c[2])

----------------------------------------------------------------------------
(* get_generation_and_filling_level: the fold, one hour per step.          *)

VARIABLES
    filling_level_lower_bound,  \* <<lower>> or <<lower_up, lower_down>>
    filling_level_upper_bound,  \* <<upper>> or <<upper_up, upper_down>>
    initial_filling_level,      \* <<level>> or <<upstream, downstream>>
    inflow,                     \* inflow of the hours folded so far
    unbounded_generation,       \* requested generation of the hours folded so far
    filling_level,              \* the accumulated states, one per hour
    generation,                 \* the realized generation, one per hour
    dataset,                    \* the time series bundle
    residual_demand_for_hydropower,  \* request series given to get_hydropower_generation
    fraction_of_pumped_storage,
    hours_at_full_power_consumption_capacity,
    hydropower_runs,            \* completed calls of get_hydropower_generation
    adequacy_runs,              \* completed calls of get_resource_adequacy
    completed_folds,            \* what the calls of the fold returned, in call order
    fold_active,                \* TRUE while a call of the fold is executing
    mix_values,                 \* arguments of get_mix_for_highest_resource_adequacy
    resource_adequacy,
    mix_of_max_resource_adequacy,  \* what the call returned, once it has
    workers,                    \* per worker: the cell it evaluates and its own fold
    pending_cells,              \* cells of the sweep no worker has taken yet
    sweep_table                 \* adequacy of the cells evaluated so far

fold_vars == <<filling_level_lower_bound, filling_level_upper_bound, initial_filling_level,
               inflow, unbounded_generation, filling_level, generation>>

hydro_vars == <<dataset, residual_demand_for_hydropower, fraction_of_pumped_storage,
                hours_at_full_power_consumption_capacity, hydropower_runs, adequacy_runs>>

call_vars == <<completed_folds, fold_active>>

mix_vars == <<mix_values, resource_adequacy, mix_of_max_resource_adequacy>>

worker_vars == <<workers, pending_cells, sweep_table>>

vars == <<fold_vars, hydro_vars, call_vars, mix_vars, worker_vars>>

\* No sweep is evaluated by workers.
NoWorkers ==
    /\ workers = <<>>
    /\ pending_cells = {}
    /\ sweep_table = <<>>

\* No call of get_mix_for_highest_resource_adequacy.
NoMix ==
    /\ mix_values = <<>>
    /\ resource_adequacy = <<>>
    /\ mix_of_max_resource_adequacy = [outcome |-> "not called"]

\* One call of the fold, executing, and none completed.
FirstCall ==
    /\ completed_folds = <<>>
    /\ fold_active = TRUE

\* No call of the fold is followed step by step.
NoCall ==
    /\ completed_folds = <<>>
    /\ fold_active = FALSE

\* No bundle: the fold is run on its own.
NoBundle ==
    /\ dataset = [inflow |-> <<>>]
    /\ residual_demand_for_hydropower = <<>>
    /\ fraction_of_pumped_storage = Q(0)
    /\ hours_at_full_power_consumption_capacity = Q(0)
    /\ hydropower_runs = {}
    /\ adequacy_runs = {}

\* No stepwise fold in progress.
NoFold ==
    /\ filling_level_lower_bound = <<>>
    /\ filling_level_upper_bound = <<>>
    /\ initial_filling_level = <<>>
    /\ inflow = <<>>
    /\ unbounded_generation = <<>>
    /\ filling_level = <<>>
    /\ generation = <<>>

\* isinstance(previus_filling_level, tuple)
IsTuple(level) == Len(level) = 2

\* np.min([previous + current_inflow, upper_bound])
AddInflowMaxMutant(previous, current_inflow, upper_bound) ==
    RMax(RAdd(previous, current_inflow), upper_bound)

AddInflowMutant(previous, current_inflow, upper_bound) == RAdd(previous, current_inflow)

AddInflow(previous, current_inflow, upper_bound) ==
    RMin(RAdd(previous, current_inflow), upper_bound)

\* np.min([current_generation, level - lower_bound])
LimitGenerationMutant(current_generation, level, lower_bound) == current_generation

LimitGeneration(current_generation, level, lower_bound) ==
    RMin(current_generation, RSub(level, lower_bound))

\* np.max([current_generation, -(downstream - lower_down), -(upper_up - upstream)])
LimitConsumptionMutant(current_generation, downstream, lower_down, upper_up, upstream) ==
    RMax(current_generation, RNeg(RSub(upper_up, upstream)))

LimitConsumption(current_generation, downstream, lower_down, upper_up, upstream) ==
    RMax(RMax(current_generation, RNeg(RSub(downstream, lower_down))),
         RNeg(RSub(upper_up, upstream)))

\* The tuple branch of clip_filling_level.
ClipCoupled(previus_filling_level, current_additions, lower, upper) ==
    LET current_inflow == current_additions[1]
        requested == current_additions[2]
        upstream_after_inflow == AddInflow(previus_filling_level[1], current_inflow, upper[1])
        current_generation ==
            IF RGt(requested, Q(0))
            THEN LimitGeneration(requested, upstream_after_inflow, lower[1])
            ELSE LimitConsumption(requested, previus_filling_level[2], lower[2],
                                  upper[1], upstream_after_inflow)
        current_upstream_filling_level == RSub(upstream_after_inflow, current_generation)
        current_downstream_filling_level ==
            RMin(RAdd(previus_filling_level[2], current_generation), upper[2])
    IN  [filling_level |-> <<current_upstream_filling_level, current_downstream_filling_level>>,
         generation |-> current_generation]

\* The scalar branch of clip_filling_level.
ClipSingleMutant(previus_filling_level, current_additions, lower, upper) ==
    LET current_inflow == current_additions[1]
        requested == current_additions[2]
        after_inflow == AddInflow(previus_filling_level[1], current_inflow, upper[1])
        current_generation == LimitGeneration(requested, after_inflow, lower[1])
    IN  [filling_level |-> <<RSub(after_inflow, requested)>>,
         generation |-> current_generation]

ClipSingle(previus_filling_level, current_additions, lower, upper) ==
    LET current_inflow == current_additions[1]
        requested == current_additions[2]
        after_inflow == AddInflow(previus_filling_level[1], current_inflow, upper[1])
        current_generation == LimitGeneration(requested, after_inflow, lower[1])
    IN  [filling_level |-> <<RSub(after_inflow, current_generation)>>,
         generation |-> current_generation]

clip_filling_level(previus_filling_level, current_additions, lower, upper) ==
    IF IsTuple(previus_filling_level)
    THEN ClipCoupled(previus_filling_level, current_additions, lower, upper)
    ELSE ClipSingle(previus_filling_level, current_additions, lower, upper)

\* The state the next step of accumulate() starts from.
PreviousLevel == IF filling_level = <<>> THEN initial_filling_level ELSE Last(filling_level)

InitSingle ==
    \E c \in {x \in UpstreamConfigs : InBounds(x)} :
        /\ filling_level_lower_bound = <<c[1]>>
        /\ filling_level_upper_bound = <<c[2]>>
        /\ initial_filling_level = <<c[3]>>

InitCoupled ==
    \E c \in {x \in UpstreamConfigs : InBounds(x)},
       e \in {x \in DownstreamConfigs : InBounds(x)} :
        /\ filling_level_lower_bound = <<c[1], e[1]>>
        /\ filling_level_upper_bound = <<c[2], e[2]>>
        /\ initial_filling_level = <<c[3], e[3]>>

Init ==
    /\ NoWorkers
    /\ NoMix
    /\ NoBundle
    /\ FirstCall
    /\ InitSingle \/ InitCoupled
    /\ inflow = <<>>
    /\ unbounded_generation = <<>>
    /\ filling_level = <<>>
    /\ generation = <<>>

\* One step of accumulate(additions, clip_filling_level, initial=...).
Accumulate(current_inflow, requested) ==
    LET r == clip_filling_level(PreviousLevel, <<current_inflow, requested>>,
                                filling_level_lower_bound, filling_level_upper_bound)
    IN  /\ inflow' = Append(inflow, current_inflow)
        /\ unbounded_generation' = Append(unbounded_generation, requested)
        /\ filling_level' = Append(filling_level, r.filling_level)
        /\ generation' = Append(generation, r.generation)
        /\ UNCHANGED <<filling_level_lower_bound, filling_level_upper_bound,
                       initial_filling_level>>
        /\ UNCHANGED hydro_vars
        /\ UNCHANGED call_vars
        /\ UNCHANGED mix_vars
        /\ UNCHANGED worker_vars

StepSingle ==
    /\ Len(filling_level) < MaxHours
    /\ ~IsTuple(initial_filling_level)
    /\ \E i \in Inflows, g \in Requests : Accumulate(i, g)

StepCoupled ==
    /\ Len(filling_level) < MaxHours
    /\ IsTuple(initial_filling_level)
    /\ \E i \in Inflows, g \in Requests : Accumulate(i, g)

Next == StepSingle \/ StepCoupled

Spec == Init /\ [][Next]_vars

\* An idle run: zero inflow and zero requested generation at every hour.
IdleSingle ==
    /\ Len(filling_level) < IdleHours
    /\ ~IsTuple(initial_filling_level)
    /\ Accumulate(Q(0), Q(0))

IdleCoupled ==
    /\ Len(filling_level) < IdleHours
    /\ IsTuple(initial_filling_level)
    /\ Accumulate(Q(0), Q(0))

NextIdle == IdleSingle \/ IdleCoupled

SpecIdle == Init /\ [][NextIdle]_vars

\* Repeated calls of the fold in one process, each with the same arguments.
MaxCalls == 2

CallRequests == {Q(-15), Q(5), Q(80)}

UpstreamCallConfigs == { <<Q(0), Q(60), Q(50)>>, <<Q(20), Q(100), Q(20)>> }

DownstreamCallConfigs == { <<Q(0), Q(20), Q(10)>> }

InitCalls ==
    /\ NoWorkers
    /\ NoMix
    /\ NoBundle
    /\ FirstCall
    /\ \/ \E c \in UpstreamCallConfigs :
            /\ filling_level_lower_bound = <<c[1]>>
            /\ filling_level_upper_bound = <<c[2]>>
            /\ initial_filling_level = <<c[3]>>
       \/ \E c \in UpstreamCallConfigs, e \in DownstreamCallConfigs :
            /\ filling_level_lower_bound = <<c[1], e[1]>>
            /\ filling_level_upper_bound = <<c[2], e[2]>>
            /\ initial_filling_level = <<c[3], e[3]>>
    /\ inflow = <<>>
    /\ unbounded_generation = <<>>
    /\ filling_level = <<>>
    /\ generation = <<>>

\* generation = [] at the entry of a call, whatever the name held before.
NewAccumulatorMutant(previous) == previous

NewAccumulator(previous) == <<>>

\* An hour of the first call; the arguments of the call are chosen here.
FirstCallHour ==
    /\ fold_active
    /\ completed_folds = <<>>
    /\ Len(filling_level) < MaxHours
    /\ \E i \in Inflows, g \in CallRequests : Accumulate(i, g)

\* return filling_level, generation
ReturnMutant ==
    /\ fold_active
    /\ Len(inflow) = MaxHours
    /\ Len(filling_level) = Len(inflow)
    /\ completed_folds' = Append(completed_folds,
                                 [filling_level |-> <<initial_filling_level>> \o filling_level,
                                  generation |-> generation])
    /\ fold_active' = FALSE
    /\ UNCHANGED fold_vars
    /\ UNCHANGED hydro_vars
    /\ UNCHANGED mix_vars
    /\ UNCHANGED worker_vars

Return ==
    /\ fold_active
    /\ Len(inflow) = MaxHours
    /\ Len(filling_level) = Len(inflow)
    /\ completed_folds' = Append(completed_folds, [filling_level |-> filling_level,
                                                    generation |-> generation])
    /\ fold_active' = FALSE
    /\ UNCHANGED fold_vars
    /\ UNCHANGED hydro_vars
    /\ UNCHANGED mix_vars
    /\ UNCHANGED worker_vars

\* The entry of a later call with the same arguments: a new accumulator, and
\* accumulate() starting from initial_filling_level.
CallAgain ==
    /\ ~fold_active
    /\ Len(completed_folds) < MaxCalls
    /\ generation' = NewAccumulator(generation)
    /\ filling_level' = <<>>
    /\ fold_active' = TRUE
    /\ UNCHANGED <<filling_level_lower_bound, filling_level_upper_bound,
                   initial_filling_level, inflow, unbounded_generation, completed_folds>>
    /\ UNCHANGED hydro_vars
    /\ UNCHANGED mix_vars
    /\ UNCHANGED worker_vars

\* An hour of a later call.
LaterCallHour ==
    /\ fold_active
    /\ completed_folds # <<>>
    /\ Len(filling_level) < Len(inflow)
    /\ LET t == Len(filling_level) + 1
           r == clip_filling_level(PreviousLevel, <<inflow[t], unbounded_generation[t]>>,
                                   filling_level_lower_bound, filling_level_upper_bound)
       IN  /\ filling_level' = Append(filling_level, r.filling_level)
           /\ generation' = Append(generation, r.generation)
    /\ UNCHANGED <<filling_level_lower_bound, filling_level_upper_bound,
                   initial_filling_level, inflow, unbounded_generation>>
    /\ UNCHANGED hydro_vars
    /\ UNCHANGED call_vars
    /\ UNCHANGED mix_vars
    /\ UNCHANGED worker_vars

NextCalls == FirstCallHour \/ Return \/ CallAgain \/ LaterCallHour

SpecCalls == InitCalls /\ [][NextCalls]_vars

----------------------------------------------------------------------------
(* get_generation_and_filling_level as a function of whole series, and     *)
(* get_hydropower_generation.                                              *)

Min2(a, b) == IF a < b THEN a ELSE b

\* The value a local name of the code is assigned: Only({e(x) : x \in {v}}) is
\* e with x assigned v, v being computed once as the assignment computes it.
Only(values) == CHOOSE value \in values : TRUE

\* list(zip(inflow, unbounded_generation))
ZipMutant(a, b) == [i \in 1..Min2(Len(a), Len(b)) |-> <<a[i], b[Len(b)]>>]

Zip(a, b) == [i \in 1..Min2(Len(a), Len(b)) |-> <<a[i], b[i]>>]

\* accumulate(additions, clip_filling_level, initial=level)[1:], each element
\* paired with the generation appended at that step.
RECURSIVE AccumulateFrom(_, _, _, _)
AccumulateFrom(level, additions, lower, upper) ==
    IF additions = <<>> THEN <<>>
    ELSE Only({ <<r>> \o AccumulateFrom(r.filling_level, Tail(additions), lower, upper) :
                    r \in {clip_filling_level(level, Head(additions), lower, upper)} })

get_generation_and_filling_level(inflow_series, unbounded_series, initial, lower, upper) ==
    Only({ [filling_level |-> [t \in 1..Len(steps) |-> steps[t].filling_level],
            generation |-> [t \in 1..Len(steps) |-> steps[t].generation]] :
               steps \in {AccumulateFrom(initial, Zip(inflow_series, unbounded_series),
                                         lower, upper)} })

\* series.shift(1, fill_value=0)
ShiftMutant(series) == series

Shift(series) ==
    IF series = <<>> THEN <<>> ELSE <<Q(0)>> \o SubSeq(series, 1, Len(series) - 1)

\* series.min() and series.max() of a non-empty series
RECURSIVE SeriesMin(_)
SeriesMin(series) ==
    IF Len(series) = 1 THEN series[1] ELSE RMin(Head(series), SeriesMin(Tail(series)))

RECURSIVE SeriesMax(_)
SeriesMax(series) ==
    IF Len(series) = 1 THEN series[1] ELSE RMax(Head(series), SeriesMax(Tail(series)))

\* 0.8, 0.1 and 0.5
EightTenths == Frac(8, 10)

OneTenth == Frac(1, 10)

OneHalf == Frac(1, 2)

CapMessage ==
    "The total consumption capacity of the pumped storage plants is limited to 80% of the total generation capacity."

TotalGenerationCapacity(bundle) ==
    RAdd(bundle.conventional_generation_capacity, bundle.pumped_storage_generation_capacity)

\* The consumption capacity after the 80% limit, and what was printed.
TotalConsumptionCapacityMutant(bundle, fraction) ==
    [capacity |-> RMul(fraction, bundle.pumped_storage_consumption_capacity),
     printed |-> <<>>]

TotalConsumptionCapacity(bundle, fraction) ==
    LET unlimited == RMul(fraction, bundle.pumped_storage_consumption_capacity)
        limit == RMul(EightTenths, TotalGenerationCapacity(bundle))
    IN  IF RGt(unlimited, limit)
        THEN [capacity |-> limit, printed |-> <<CapMessage>>]
        ELSE [capacity |-> unlimited, printed |-> <<>>]

\* series.where(series < generation_capacity, generation_capacity)
\*       .where(... > -consumption_capacity, -consumption_capacity), one value
ClipToCapacityNoFloorMutant(requested, generation_capacity, consumption_capacity) ==
    IF RLt(requested, generation_capacity) THEN requested ELSE generation_capacity

ClipToCapacityMutant(requested, generation_capacity, consumption_capacity) ==
    LET capped == IF RLt(requested, generation_capacity) THEN requested
                  ELSE RSub(requested, generation_capacity)
    IN  IF RGt(capped, RNeg(consumption_capacity)) THEN capped
        ELSE RNeg(consumption_capacity)

ClipToCapacity(requested, generation_capacity, consumption_capacity) ==
    LET capped == IF RLt(requested, generation_capacity) THEN requested
                  ELSE generation_capacity
    IN  IF RGt(capped, RNeg(consumption_capacity)) THEN capped
        ELSE RNeg(consumption_capacity)

get_hydropower_generation(residual, bundle, fraction, hours) ==
    LET hydropower_inflow == Shift(bundle.inflow)
        total_generation_capacity == TotalGenerationCapacity(bundle)
        limited == TotalConsumptionCapacity(bundle, fraction)
        total_consumption_capacity == limited.capacity
        requested == [t \in 1..Len(residual) |->
                         ClipToCapacity(residual[t], total_generation_capacity,
                                        total_consumption_capacity)]
        max_downstream == RMul(total_consumption_capacity, hours)
        min_downstream == RMul(OneTenth, max_downstream)
        reservoir == bundle.reservoir_filling_level
        coupled == [initial |-> <<reservoir[1], RMul(OneHalf, max_downstream)>>,
                    lower |-> <<SeriesMin(reservoir), min_downstream>>,
                    upper |-> <<SeriesMax(reservoir), max_downstream>>]
        single == [initial |-> <<reservoir[1]>>,
                   lower |-> <<SeriesMin(reservoir)>>,
                   upper |-> <<SeriesMax(reservoir)>>]
        arguments == IF RGt(fraction, Q(0)) THEN coupled ELSE single
    IN  Only({ [hydropower_generation |-> run.generation,
                upstream |-> [t \in 1..Len(run.filling_level) |-> run.filling_level[t][1]],
                downstream |-> [t \in 1..Len(run.filling_level) |->
                                   IF RGt(fraction, Q(0)) THEN run.filling_level[t][2]
                                   ELSE RMul(Q(0), run.filling_level[t][1])],
                total_consumption_capacity |-> total_consumption_capacity,
                requested |-> requested,
                inflow |-> hydropower_inflow,
                initial_filling_level |-> arguments.initial,
                filling_level_lower_bound |-> arguments.lower,
                filling_level_upper_bound |-> arguments.upper,
                printed |-> limited.printed] :
                   run \in {get_generation_and_filling_level(hydropower_inflow, requested,
                                arguments.initial, arguments.lower, arguments.upper)} })

\* The bundle after a call of get_hydropower_generation or get_residual_demand:
\* every statement of the two functions binds a local name to a new object
\* (to_pandas(), shift(), where(), arithmetic); none assigns to an entry of
\* dataset or writes into one of its arrays.
DatasetAfterCallMutant(bundle) == [bundle EXCEPT !.inflow = Shift(bundle.inflow)]

DatasetAfterCall(bundle) == bundle

\* Input sets of the hydropower runs.
ResidualDemands == {Q(-60), Q(5), Q(30), Q(80)}

ReservoirReadings == { <<Q(50), Q(0), Q(100)>>, <<Q(100), Q(40)>>, <<Q(20), Q(20)>> }

ConventionalCapacities == {Q(10), Q(30)}

PumpedStorageCapacities == {Q(0), Q(25)}

PumpedStorageFractions == {Q(0), Q(1), Q(2)}

HoursOfAutonomy == {Q(8)}

SeriesOf(values, n) == [1..n -> values]

\* The bundle as get_time_series_dataset builds it: the consumption capacity
\* entry is 0.8 x the pumped-storage generation capacity.
HydroBundle(inflow_series, reservoir, pumped_storage_capacity) ==
    [inflow |-> inflow_series,
     reservoir_filling_level |-> reservoir,
     conventional_generation_capacity |-> Q(0),
     pumped_storage_generation_capacity |-> pumped_storage_capacity,
     pumped_storage_consumption_capacity |-> RMul(EightTenths, pumped_storage_capacity)]

InitHydro ==
    /\ NoWorkers
    /\ NoMix
    /\ NoFold
    /\ NoCall
    /\ \E i \in SeriesOf(Inflows, MaxHours), r \in ReservoirReadings,
          p \in PumpedStorageCapacities :
            dataset = HydroBundle(i, r, p)
    /\ residual_demand_for_hydropower \in SeriesOf(ResidualDemands, MaxHours)
    /\ fraction_of_pumped_storage \in PumpedStorageFractions
    /\ hours_at_full_power_consumption_capacity \in HoursOfAutonomy
    /\ hydropower_runs = {}
    /\ adequacy_runs = {}

\* One call of get_hydropower_generation on the bundle with conventional
\* generation capacity c.
GetHydropowerGeneration ==
    \E c \in ConventionalCapacities :
        /\ \A run \in hydropower_runs : run.conventional_generation_capacity # c
        /\ LET bundle == [dataset EXCEPT !.conventional_generation_capacity = c]
               result == get_hydropower_generation(residual_demand_for_hydropower, bundle,
                             fraction_of_pumped_storage,
                             hours_at_full_power_consumption_capacity)
           IN  hydropower_runs' = hydropower_runs \cup
                   {[conventional_generation_capacity |-> c, result |-> result]}
        /\ dataset' = DatasetAfterCall(dataset)
        /\ UNCHANGED <<residual_demand_for_hydropower, fraction_of_pumped_storage,
                       hours_at_full_power_consumption_capacity, adequacy_runs>>
        /\ UNCHANGED fold_vars
        /\ UNCHANGED call_vars
        /\ UNCHANGED mix_vars
        /\ UNCHANGED worker_vars

NextHydro == GetHydropowerGeneration

SpecHydro == InitHydro /\ [][NextHydro]_vars

----------------------------------------------------------------------------
(* get_residual_demand and get_resource_adequacy.                          *)

\* series.mean()
Mean(series) == RDiv(RSum(series), Q(Len(series)))

\* value.where(value > 0, 0)
PositivePart(x) == IF RGt(x, Q(0)) THEN x ELSE Q(0)

ActualHydropowerGeneration(bundle) ==
    [t \in 1..Len(bundle.electricity_demand) |->
        RSub(RAdd(RAdd(bundle.conventional_generation[t], bundle.pumped_storage_generation[t]),
                  bundle.run_of_river_generation[t]),
             bundle.pumped_storage_consumption[t])]

\* mean_generation * capacity_factor / capacity_factor.mean()
ScaledGeneration(mean_generation, capacity_factor) ==
    LET mean_capacity_factor == Mean(capacity_factor)
    IN  [t \in 1..Len(capacity_factor) |->
            RDiv(RMul(mean_generation, capacity_factor[t]), mean_capacity_factor)]

\* hydropower_generation + dataset['Run-of-river hydropower generation']
AddRunOfRiver(simulated, bundle) ==
    [t \in 1..Len(simulated.hydropower_generation) |->
        RAdd(simulated.hydropower_generation[t], bundle.run_of_river_generation[t])]

get_residual_demand(bundle, wind_and_solar_generation_fraction, wind_generation_fraction, use_actual_hydropower_generation, fraction, hours) ==
    LET mean_electricity_demand == Mean(bundle.electricity_demand)
        actual_hydropower_generation == ActualHydropowerGeneration(bundle)
        to_cover == RSub(mean_electricity_demand, Mean(actual_hydropower_generation))
        mean_wind_generation ==
            RMul(RMul(wind_and_solar_generation_fraction, wind_generation_fraction), to_cover)
        mean_solar_generation ==
            RMul(RMul(wind_and_solar_generation_fraction,
                      RSub(Q(1), wind_generation_fraction)), to_cover)
        wind_generation ==
            ScaledGeneration(mean_wind_generation, bundle.onshore_wind_capacity_factor)
        solar_generation ==
            ScaledGeneration(mean_solar_generation, bundle.solar_capacity_factor)
    IN  Only({ Only({ [residual_demand |->
                           [t \in 1..Len(before_hydropower) |->
                               RSub(before_hydropower[t], hydropower_generation[t])],
                       mean_wind_generation |-> mean_wind_generation,
                       mean_solar_generation |-> mean_solar_generation,
                       hydropower_generation |-> hydropower_generation,
                       wind_generation |-> wind_generation,
                       solar_generation |-> solar_generation,
                       residual_demand_for_hydropower |->
                           IF use_actual_hydropower_generation THEN <<>>
                           ELSE before_hydropower,
                       simulator_calls |-> IF use_actual_hydropower_generation THEN 0 ELSE 1,
                       outcome |-> "returned"] :
                 hydropower_generation \in
                     { IF use_actual_hydropower_generation THEN actual_hydropower_generation
                       ELSE AddRunOfRiver(
                                get_hydropower_generation(before_hydropower, bundle,
                                                          fraction, hours),
                                bundle) } }) :
             before_hydropower \in
                 { [t \in 1..Len(bundle.electricity_demand) |->
                       RSub(RSub(bundle.electricity_demand[t], wind_generation[t]),
                            solar_generation[t])] } })

\* unmet_demand[ii, jj] = residual_demand.where(residual_demand > 0, 0).sum()
UnmetDemandMutant(residual) == RSum(residual)

UnmetDemand(residual) == RSum([t \in 1..Len(residual) |-> PositivePart(residual[t])])

\* 1 - unmet_demand / demand.sum()
AdequacyOf(unmet_demand, bundle) ==
    RSub(Q(1), RDiv(unmet_demand, RSum(bundle.electricity_demand)))

get_resource_adequacy(bundle, wind_and_solar_generation_fractions, wind_generation_fractions, use_actual_hydropower_generation, fraction, hours) ==
    LET cells == (1..Len(wind_and_solar_generation_fractions))
                     \X (1..Len(wind_generation_fractions))
    IN  Only({ [resource_adequacy |->
                    [c \in cells |-> AdequacyOf(UnmetDemand(cell[c].residual_demand), bundle)],
                residual_demand |-> [c \in cells |-> cell[c].residual_demand],
                calls |-> cell,
                simulator_calls |-> Cardinality({c \in cells : cell[c].simulator_calls > 0}),
                outcome |-> "returned"] :
             cell \in { [c \in cells |->
                            get_residual_demand(bundle,
                                wind_and_solar_generation_fractions[c[1]],
                                wind_generation_fractions[c[2]],
                                use_actual_hydropower_generation, fraction, hours)] } })

\* The hours a bundle is made of: demand, wind and solar capacity factor,
\* metered conventional, pumped-storage and run-of-river generation, metered
\* pumped-storage consumption, and inflow.
Hour(d, w, s, c, g, r, p, i) ==
    [demand |-> d, wind |-> w, solar |-> s, conventional |-> c, pumped_storage |-> g,
     run_of_river |-> r, consumption |-> p, inflow |-> i]

HourProfiles ==
    { Hour(Q(10), Frac(1, 2), Q(0), Q(3), Q(0), Q(1), Q(0), Q(5)),
      Hour(Q(10), Q(0), Frac(1, 2), Q(2), Q(2), Q(1), Q(0), Q(0)),
      Hour(Q(4), Q(0), Q(0), Q(0), Q(0), Q(0), Q(6), Q(0)),
      Hour(Q(0), Q(1), Q(0), Q(0), Q(0), Q(0), Q(0), Q(10)),
      Hour(Q(8), Q(0), Q(0), Q(12), Q(0), Q(2), Q(0), Q(20)) }

WindAndSolarGenerationFractions == <<Q(0), Q(1)>>

WindGenerationFractions == <<Q(0), Frac(1, 2), Q(1)>>

AdequacyBundle(hours, pumped_storage_capacity) ==
    [electricity_demand |-> [t \in 1..Len(hours) |-> hours[t].demand],
     onshore_wind_capacity_factor |-> [t \in 1..Len(hours) |-> hours[t].wind],
     solar_capacity_factor |-> [t \in 1..Len(hours) |-> hours[t].solar],
     conventional_generation |-> [t \in 1..Len(hours) |-> hours[t].conventional],
     pumped_storage_generation |-> [t \in 1..Len(hours) |-> hours[t].pumped_storage],
     run_of_river_generation |-> [t \in 1..Len(hours) |-> hours[t].run_of_river],
     pumped_storage_consumption |-> [t \in 1..Len(hours) |-> hours[t].consumption],
     inflow |-> [t \in 1..Len(hours) |-> hours[t].inflow],
     reservoir_filling_level |-> <<Q(10), Q(0), Q(100)>>,
     conventional_generation_capacity |-> Q(10),
     pumped_storage_generation_capacity |-> pumped_storage_capacity,
     pumped_storage_consumption_capacity |-> RMul(EightTenths, pumped_storage_capacity)]

InitAdequacy ==
    /\ NoWorkers
    /\ NoMix
    /\ NoFold
    /\ NoCall
    /\ \E h \in SeriesOf(HourProfiles, MaxHours), p \in PumpedStorageCapacities :
            /\ dataset = AdequacyBundle(h, p)
            /\ fraction_of_pumped_storage = IF p = Q(0) THEN Q(0) ELSE Q(1)
    /\ residual_demand_for_hydropower = <<>>
    /\ hours_at_full_power_consumption_capacity \in HoursOfAutonomy
    /\ hydropower_runs = {}
    /\ adequacy_runs = {}

\* One call of get_resource_adequacy on the bundle, with actual or with
\* simulated hydropower.
GetResourceAdequacy(use_actual_hydropower_generation) ==
    /\ \A run \in adequacy_runs :
           run.use_actual_hydropower_generation # use_actual_hydropower_generation
    /\ adequacy_runs' = adequacy_runs \cup
           {[use_actual_hydropower_generation |-> use_actual_hydropower_generation,
             result |-> get_resource_adequacy(dataset, WindAndSolarGenerationFractions,
                            WindGenerationFractions, use_actual_hydropower_generation,
                            fraction_of_pumped_storage,
                            hours_at_full_power_consumption_capacity)]}
    /\ dataset' = DatasetAfterCall(dataset)
    /\ UNCHANGED <<residual_demand_for_hydropower, fraction_of_pumped_storage,
                   hours_at_full_power_consumption_capacity, hydropower_runs>>
    /\ UNCHANGED fold_vars
    /\ UNCHANGED call_vars
    /\ UNCHANGED mix_vars
    /\ UNCHANGED worker_vars

WithActualHydropower == GetResourceAdequacy(TRUE)

WithSimulatedHydropower == GetResourceAdequacy(FALSE)

NextAdequacy == WithActualHydropower \/ WithSimulatedHydropower

SpecAdequacy == InitAdequacy /\ [][NextAdequacy]_vars

----------------------------------------------------------------------------
(* get_mix_for_highest_resource_adequacy.                                  *)

\* num=1001
UpsampledPoints == 1001

IsFinite(x) == x.d # 0

RECURSIVE RProd(_)
RProd(s) == IF s = <<>> THEN Q(1) ELSE RMul(Head(s), RProd(Tail(s)))

\* np.linspace(start, stop, num)
Linspace(start, stop, num) ==
    [k \in 1..num |-> RAdd(start, RDiv(RMul(Q(k - 1), RSub(stop, start)), Q(num - 1)))]

\* CubicSpline(x, y) accepts finite values on a strictly increasing axis of at
\* least two points and raises ValueError otherwise.
SplineAccepts(x, y) ==
    /\ Len(x) >= 2
    /\ Len(x) = Len(y)
    /\ \A i \in 1..Len(x) : IsFinite(x[i]) /\ IsFinite(y[i])
    /\ \A i \in 1..(Len(x) - 1) : RLt(x[i], x[i + 1])

\* CubicSpline(x, y)(v) for two to four points: with the default not-a-knot
\* ends the spline is the one polynomial through the points (a line, a
\* parabola, a cubic).
SplineValue(x, y, v) ==
    RSum([i \in 1..Len(x) |->
             RMul(y[i], RProd([j \in 1..Len(x) |->
                                  IF j = i THEN Q(1)
                                  ELSE RDiv(RSub(v, x[j]), RSub(x[i], x[j]))]))])

\* np.argmax(values): the first index of the largest value.  The scan is
\* written by halves: the answer of lo..hi is the answer of the left half
\* unless the right half holds a strictly larger value.
RECURSIVE ArgMaxIn(_, _, _)
PreferMutant(values, left, right) ==
    IF RGe(values[right], values[left]) THEN right ELSE left

Prefer(values, left, right) ==
    IF RGt(values[right], values[left]) THEN right ELSE left

ArgMaxIn(values, lo, hi) ==
    IF lo = hi THEN lo
    ELSE Only({ Prefer(values, left, right) :
                    left \in {ArgMaxIn(values, lo, (lo + hi) \div 2)},
                    right \in {ArgMaxIn(values, (lo + hi) \div 2 + 1, hi)} })

ArgMax(values) == ArgMaxIn(values, 1, Len(values))

get_mix_for_highest_resource_adequacy(mix, adequacy) ==
    IF ~SplineAccepts(mix, adequacy) THEN [outcome |-> "raised"]
    ELSE Only({ Only({ [outcome |-> "returned",
                        value |-> upsampled_mix_values[ArgMax(upsampled_resource_adequacy)]] :
                     upsampled_resource_adequacy \in
                         { [k \in 1..Len(upsampled_mix_values) |->
                               SplineValue(mix, adequacy, upsampled_mix_values[k])] } }) :
                upsampled_mix_values \in
                    { Linspace(mix[1], mix[Len(mix)], UpsampledPoints) } })

\* Input sets: wind-fraction axes and the adequacy values of a row.
MixAxes == { <<Q(0), Frac(1, 2), Q(1)>>, <<Frac(1, 4), Frac(1, 2), Frac(3, 4)>> }

AdequacyValues == {Q(0), Frac(1, 2), Q(1)}

\* A row whose parabola peaks midway between two grid points, and a row of a
\* bundle without demand.
SpecialRows == { <<Q(0), Frac(501, 1000), Frac(1, 500)>>, <<NaN, NaN, NaN>> }

InitMix ==
    /\ NoWorkers
    /\ NoBundle
    /\ NoFold
    /\ NoCall
    /\ mix_values \in MixAxes
    /\ resource_adequacy \in [1..Len(mix_values) -> AdequacyValues] \cup SpecialRows
    /\ mix_of_max_resource_adequacy = [outcome |-> "not called"]

FindMix ==
    /\ mix_of_max_resource_adequacy.outcome = "not called"
    /\ mix_of_max_resource_adequacy' =
           get_mix_for_highest_resource_adequacy(mix_values, resource_adequacy)
    /\ UNCHANGED <<mix_values, resource_adequacy>>
    /\ UNCHANGED worker_vars
    /\ UNCHANGED fold_vars
    /\ UNCHANGED hydro_vars
    /\ UNCHANGED call_vars

NextMix == FindMix

SpecMix == InitMix /\ [][NextMix]_vars

----------------------------------------------------------------------------
(* Properties of the fold.                                                 *)

Hours == 1..Len(filling_level)

\* The state hour t started from.
LevelBefore(t) == IF t = 1 THEN initial_filling_level ELSE filling_level[t - 1]

Within(x, lo, hi) == RLe(lo, x) /\ RLe(x, hi)

\* C1 (as claimed): in the single-reservoir case the level after every hour
\* lies within [lower_bound, upper_bound], whatever the sign of the requests.
C1_SingleReservoirWithinBounds ==
    ~IsTuple(initial_filling_level) =>
        \A t \in Hours :
            Within(filling_level[t][1], filling_level_lower_bound[1],
                   filling_level_upper_bound[1])

\* C2: in the two-reservoir case both basins stay within their bounds after
\* every hour, for non-negative inflow and signed requests.
C2_CoupledWithinBounds ==
    IsTuple(initial_filling_level) =>
        \A t \in Hours : \A b \in 1..2 :
            Within(filling_level[t][b], filling_level_lower_bound[b],
                   filling_level_upper_bound[b])

\* A pumping hour whose request was cut, ending with the downstream basin on
\* its floor, and a generating hour that filled the downstream basin.
C2_Witness ==
    /\ IsTuple(initial_filling_level)
    /\ \E t \in Hours :
        /\ RLt(unbounded_generation[t], generation[t])
        /\ filling_level[t][2] = filling_level_lower_bound[2]
    /\ \E t \in Hours :
        /\ RGt(generation[t], Q(0))
        /\ filling_level[t][2] = filling_level_upper_bound[2]
        /\ RGt(RAdd(LevelBefore(t)[2], generation[t]), filling_level_upper_bound[2])

ScenarioA ==
    /\ ~IsTuple(initial_filling_level)
    /\ filling_level_lower_bound = <<Q(0)>>
    /\ filling_level_upper_bound = <<Q(100)>>
    /\ initial_filling_level = <<Q(50)>>
    /\ Len(inflow) >= 3
    /\ SubSeq(inflow, 1, 3) = <<Q(10), Q(0), Q(0)>>
    /\ SubSeq(unbounded_generation, 1, 3) = <<Q(5), Q(80), Q(0)>>

\* C3 (as claimed): Scenario A realizes generation [5, 60, 0] and levels [55, 0, 0].
C3_ScenarioA_AsClaimed ==
    ScenarioA =>
        /\ SubSeq(generation, 1, 3) = <<Q(5), Q(60), Q(0)>>
        /\ SubSeq(filling_level, 1, 3) = << <<Q(55)>>, <<Q(0)>>, <<Q(0)>> >>

\* C3 (amended): Scenario A realizes generation [5, 55, 0] and levels [55, 0, 0]:
\* after the first hour only 55 units are above the floor.
C3_ScenarioA ==
    ScenarioA =>
        /\ SubSeq(generation, 1, 3) = <<Q(5), Q(55), Q(0)>>
        /\ SubSeq(filling_level, 1, 3) = << <<Q(55)>>, <<Q(0)>>, <<Q(0)>> >>

C3_Witness == ScenarioA /\ Len(generation) >= 3

\* Amount removed by the upper-bound clip at hour t (single reservoir).
Spilled(t) ==
    LET excess == RSub(RAdd(LevelBefore(t)[1], inflow[t]), filling_level_upper_bound[1])
    IN  RMax(Q(0), excess)

\* Amount by which the request of hour t exceeds the water above the floor.
Shortfall(t) ==
    LET available == RSub(RMin(RAdd(LevelBefore(t)[1], inflow[t]),
                               filling_level_upper_bound[1]),
                          filling_level_lower_bound[1])
    IN  RMax(Q(0), RSub(unbounded_generation[t], available))

\* C4: single-reservoir conservation.  At every hour S_prev + I - G' - S equals
\* the amount removed by the upper-bound clip and G - G' equals the amount by
\* which the request exceeded the available water; with no clip active
\* S = S_prev + I - G'.
C4_Conservation ==
    ~IsTuple(initial_filling_level) =>
        \A t \in Hours :
            LET balance == RSub(RSub(RAdd(LevelBefore(t)[1], inflow[t]), generation[t]),
                                filling_level[t][1])
            IN  /\ balance = Spilled(t)
                /\ RSub(unbounded_generation[t], generation[t]) = Shortfall(t)
                /\ (Spilled(t) = Q(0) /\ Shortfall(t) = Q(0)) =>
                       filling_level[t][1] =
                           RSub(RAdd(LevelBefore(t)[1], inflow[t]), generation[t])

\* An hour with both clips active, and an hour with none.
C4_Witness ==
    /\ ~IsTuple(initial_filling_level)
    /\ \E t \in Hours : RGt(Spilled(t), Q(0)) /\ RGt(Shortfall(t), Q(0))
    /\ \E t \in Hours : Spilled(t) = Q(0) /\ Shortfall(t) = Q(0)
                         /\ generation[t] # Q(0)

\* C9: with zero inflow and zero requested generation at every hour, the level
\* (both levels in the two-reservoir case) equals the initial level after
\* each hour.
C9_IdleKeepsLevel ==
    \A t \in Hours : filling_level[t] = initial_filling_level

\* Ten idle hours done, in the two-reservoir case.
C9_Witness ==
    /\ Len(filling_level) >= 10
    /\ IsTuple(initial_filling_level)
    /\ \A t \in Hours : inflow[t] = Q(0) /\ unbounded_generation[t] = Q(0)

----------------------------------------------------------------------------
(* Properties of get_hydropower_generation.                                *)

AnnualGeneration(run) == RSum(run.result.hydropower_generation)

MoreCapacityNeverLess ==
    \A lo \in hydropower_runs, hi \in hydropower_runs :
        RLe(lo.conventional_generation_capacity, hi.conventional_generation_capacity)
            => RLe(AnnualGeneration(lo), AnnualGeneration(hi))

\* C5 (as claimed): in both configurations, of two runs that differ only in
\* the generation capacity the one with more capacity never has the smaller
\* annual sum of realized generation.
C5_Monotone_AsClaimed == MoreCapacityNeverLess

\* C5 (amended): the same, for the single-reservoir configuration
\* (fraction_of_pumped_storage = 0).
C5_MonotoneSingleReservoir ==
    fraction_of_pumped_storage = Q(0) => MoreCapacityNeverLess

\* Two single-reservoir runs where the added capacity was used.
C5_Witness ==
    /\ fraction_of_pumped_storage = Q(0)
    /\ \E lo \in hydropower_runs, hi \in hydropower_runs :
        /\ RLt(lo.conventional_generation_capacity, hi.conventional_generation_capacity)
        /\ RLt(AnnualGeneration(lo), AnnualGeneration(hi))
        /\ \E t \in 1..Len(hi.result.hydropower_generation) :
               RLt(hi.result.hydropower_generation[t], lo.result.hydropower_generation[t])

\* What a run was configured with.
RunGenerationCapacity(run) ==
    RAdd(run.conventional_generation_capacity, dataset.pumped_storage_generation_capacity)

RunRequestedConsumption ==
    RMul(fraction_of_pumped_storage, dataset.pumped_storage_consumption_capacity)

RunIsLimited(run) ==
    RGt(RunRequestedConsumption, RMul(Frac(4, 5), RunGenerationCapacity(run)))

\* C10: when fraction x consumption capacity exceeds 0.8 x total generation
\* capacity the run uses exactly 0.8 x total generation capacity, prints the
\* message and completes; otherwise it uses the consumption capacity unchanged
\* and prints nothing.  The capacity used never exceeds 0.8 x total generation
\* capacity.
C10_ConsumptionCap ==
    \A run \in hydropower_runs :
        /\ RunIsLimited(run) =>
               /\ run.result.total_consumption_capacity =
                      RMul(Frac(4, 5), RunGenerationCapacity(run))
               /\ run.result.printed = <<CapMessage>>
        /\ ~RunIsLimited(run) =>
               /\ run.result.total_consumption_capacity = RunRequestedConsumption
               /\ run.result.printed = <<>>
        /\ RLe(run.result.total_consumption_capacity,
               RMul(Frac(4, 5), RunGenerationCapacity(run)))
        /\ Len(run.result.hydropower_generation) = Len(residual_demand_for_hydropower)
        /\ \A t \in 1..Len(run.result.hydropower_generation) :
               RGe(run.result.hydropower_generation[t],
                   RNeg(run.result.total_consumption_capacity))

\* A limited run and an unlimited pumped-storage run of the same bundle, the
\* limited one pumping at its limited capacity.
C10_Witness ==
    \E a \in hydropower_runs, b \in hydropower_runs :
        /\ RunIsLimited(a) /\ ~RunIsLimited(b)
        /\ RGt(fraction_of_pumped_storage, Q(0))
        /\ \E t \in 1..Len(a.result.hydropower_generation) :
               a.result.hydropower_generation[t] = RNeg(a.result.total_consumption_capacity)
                   /\ RLt(a.result.hydropower_generation[t], Q(0))

----------------------------------------------------------------------------
(* Properties of the adequacy sweep.                                       *)

TotalDemand == RSum(dataset.electricity_demand)

Cells == (1..Len(WindAndSolarGenerationFractions)) \X (1..Len(WindGenerationFractions))

\* A capacity-factor series with zero annual mean, or zero total demand.
DegenerateBundle ==
    \/ Mean(dataset.onshore_wind_capacity_factor) = Q(0)
    \/ Mean(dataset.solar_capacity_factor) = Q(0)
    \/ TotalDemand = Q(0)

\* C6 (as claimed): for a bundle with positive total demand every entry of the
\* adequacy table lies in [0, 1], with actual and with simulated hydropower.
C6_Range_AsClaimed ==
    RGt(TotalDemand, Q(0)) =>
        \A run \in adequacy_runs : \A c \in Cells :
            Within(run.result.resource_adequacy[c], Q(0), Q(1))

\* C7 (as claimed): on a bundle with a zero-mean capacity factor or zero total
\* demand the call raises instead of returning.
C7_FailFast_AsClaimed ==
    DegenerateBundle => \A run \in adequacy_runs : run.result.outcome = "raised"

\* 1 - sum(max(demand - actual_hydropower_generation, 0)) / sum(demand)
DirectAdequacy ==
    LET actual == ActualHydropowerGeneration(dataset)
        unmet == RSum([t \in 1..Len(actual) |->
                          RMax(RSub(dataset.electricity_demand[t], actual[t]), Q(0))])
    IN  RSub(Q(1), RDiv(unmet, TotalDemand))

\* C8 (as claimed): with actual hydropower and renewable share 0 every cell of
\* the row equals the directly computed adequacy, and the dispatch simulator
\* is not invoked.
C8_ScenarioD_AsClaimed ==
    RGt(TotalDemand, Q(0)) =>
        \A run \in adequacy_runs :
            run.use_actual_hydropower_generation =>
                /\ run.result.simulator_calls = 0
                /\ \A c \in Cells :
                       WindAndSolarGenerationFractions[c[1]] = Q(0) =>
                           run.result.resource_adequacy[c] = DirectAdequacy

\* Equality of two floats: NaN equals nothing, itself included.
REq(x, y) == ~IsNaN(x) /\ ~IsNaN(y) /\ x = y

ShareOf(c) == WindAndSolarGenerationFractions[c[1]]

WindFractionOf(c) == WindGenerationFractions[c[2]]

\* mean demand - mean metered hydropower
ToCover ==
    RSub(Mean(dataset.electricity_demand), Mean(ActualHydropowerGeneration(dataset)))

\* What C11 states of one call of get_residual_demand for cell c.
ResidualDemandAsStated(r, c) ==
    LET W == RMul(RMul(ShareOf(c), WindFractionOf(c)), ToCover)
        P == RMul(RMul(ShareOf(c), RSub(Q(1), WindFractionOf(c))), ToCover)
    IN  /\ \A t \in 1..Len(dataset.electricity_demand) :
               /\ r.wind_generation[t] =
                      RDiv(RMul(W, dataset.onshore_wind_capacity_factor[t]),
                           Mean(dataset.onshore_wind_capacity_factor))
               /\ r.solar_generation[t] =
                      RDiv(RMul(P, dataset.solar_capacity_factor[t]),
                           Mean(dataset.solar_capacity_factor))
               /\ r.residual_demand[t] =
                      RSub(RSub(RSub(dataset.electricity_demand[t], r.wind_generation[t]),
                                r.solar_generation[t]),
                           r.hydropower_generation[t])
        /\ REq(r.mean_wind_generation, W) /\ REq(r.mean_solar_generation, P)
        /\ REq(Mean(r.wind_generation), W)
        /\ REq(Mean(r.solar_generation), P)
        /\ REq(RAdd(Mean(r.wind_generation), Mean(r.solar_generation)),
               RMul(ShareOf(c), ToCover))

\* C11 (as claimed): for every share s and wind fraction f the call builds
\* wind = W * cf_wind / mean(cf_wind) and solar = P * cf_solar / mean(cf_solar),
\* mean(wind) = W, mean(solar) = P, their sum is s * (mean demand - mean
\* hydropower), and the returned series is demand - wind - solar - hydropower.
C11_ResidualDemand_AsClaimed ==
    \A run \in adequacy_runs : \A c \in Cells :
        ResidualDemandAsStated(run.result.calls[c], c)

\* The residual demand of share i and wind fraction j on the bundle, in the
\* hydropower mode of the run.
ResidualDemandOf(run, i, j) ==
    get_residual_demand(dataset, WindAndSolarGenerationFractions[i],
                        WindGenerationFractions[j],
                        run.use_actual_hydropower_generation,
                        fraction_of_pumped_storage,
                        hours_at_full_power_consumption_capacity).residual_demand

\* Sum over the year of the positive part of a series (x where x > 0, else 0).
SumOfPositivePart(series) ==
    RSum([t \in 1..Len(series) |-> IF RGt(series[t], Q(0)) THEN series[t] ELSE Q(0)])

\* C12: the table has one row per share and one column per wind fraction, in
\* the order of the lists, and entry [i, j] is 1 - (sum of the positive part of
\* the residual demand of share i and wind fraction j) / (sum of demand).
C12_SweepCell ==
    \A run \in adequacy_runs :
        /\ DOMAIN run.result.resource_adequacy =
               (1..Len(WindAndSolarGenerationFractions)) \X (1..Len(WindGenerationFractions))
        /\ \A i \in 1..Len(WindAndSolarGenerationFractions) :
           \A j \in 1..Len(WindGenerationFractions) :
               run.result.resource_adequacy[<<i, j>>] =
                   RSub(Q(1), RDiv(SumOfPositivePart(ResidualDemandOf(run, i, j)),
                                   RSum(dataset.electricity_demand)))

\* A sweep with simulated hydropower whose entries differ along both axes, one
\* of them strictly between 0 and 1 with a surplus hour in its residual demand.
C12_Witness ==
    \E run \in adequacy_runs :
        /\ ~run.use_actual_hydropower_generation
        /\ ~DegenerateBundle
        /\ run.result.resource_adequacy[<<1, 1>>] # run.result.resource_adequacy[<<2, 1>>]
        /\ run.result.resource_adequacy[<<2, 1>>] # run.result.resource_adequacy[<<2, 2>>]
        /\ RLt(Q(0), run.result.resource_adequacy[<<2, 2>>])
        /\ RLt(run.result.resource_adequacy[<<2, 2>>], Q(1))
        /\ \E t \in 1..Len(dataset.electricity_demand) :
               RLt(ResidualDemandOf(run, 2, 2)[t], Q(0))

----------------------------------------------------------------------------
(* Properties of repeated calls of the fold.                               *)

\* C13: calls of the fold with identical arguments return identical
\* realized-generation and filling-level series, also when one runs after the
\* other in the same process; each returned series has one entry per hour of
\* the call, so nothing accumulated by an earlier call is visible.
C13_Deterministic ==
    /\ \A a \in 1..Len(completed_folds) : \A b \in 1..Len(completed_folds) :
           completed_folds[a] = completed_folds[b]
    /\ \A a \in 1..Len(completed_folds) :
           /\ Len(completed_folds[a].generation) = Len(inflow)
           /\ Len(completed_folds[a].filling_level) = Len(inflow)
    /\ fold_active => Len(generation) = Len(filling_level)

\* Two completed calls whose requests were cut and which ended away from the
\* initial level.
C13_Witness ==
    /\ Len(completed_folds) >= 2
    /\ Last(completed_folds[1].filling_level) # initial_filling_level
    /\ completed_folds[1].generation # unbounded_generation
    /\ \E t \in 1..Len(inflow) : completed_folds[1].generation[t] # Q(0)

----------------------------------------------------------------------------
(* Frame of the adequacy sweep.                                            *)

\* C14: a call of get_residual_demand, with actual or with simulated
\* hydropower (which calls get_hydropower_generation), leaves every series
\* and every scalar of the bundle as it was.
C14_BundleUnchanged == [][dataset' = dataset]_vars

\* Both hydropower modes have run on a bundle with inflow, the simulated one
\* through the dispatch simulator.
C14_Witness ==
    /\ \E run \in adequacy_runs : run.use_actual_hydropower_generation
    /\ \E run \in adequacy_runs :
           ~run.use_actual_hydropower_generation /\ run.result.simulator_calls > 0
    /\ \E t \in 1..Len(dataset.inflow) : dataset.inflow[t] # Q(0)
    /\ Shift(dataset.inflow) # dataset.inflow

----------------------------------------------------------------------------
(* Further properties of get_hydropower_generation.                        *)

\* The request of hour t of a run, clipped to the capacities of the run.
ClippedOnce(run, t) ==
    ClipToCapacity(residual_demand_for_hydropower[t], RunGenerationCapacity(run),
                   run.result.total_consumption_capacity)

\* C15: with non-negative generation and consumption capacities, clipping an
\* already clipped request (cap at generation_capacity, then floor at
\* -consumption_capacity) returns it unchanged.
C15_ClipIdempotent ==
    \A run \in hydropower_runs :
        (RGe(RunGenerationCapacity(run), Q(0))
             /\ RGe(run.result.total_consumption_capacity, Q(0))) =>
            \A t \in 1..Len(residual_demand_for_hydropower) :
                ClipToCapacity(ClippedOnce(run, t), RunGenerationCapacity(run),
                               run.result.total_consumption_capacity) = ClippedOnce(run, t)

\* A run whose requests were capped at an hour, floored at another and left
\* alone at a third.
C15_Witness ==
    \E run \in hydropower_runs :
        /\ RGt(run.result.total_consumption_capacity, Q(0))
        /\ \E t \in 1..Len(residual_demand_for_hydropower) :
               /\ RGt(residual_demand_for_hydropower[t], RunGenerationCapacity(run))
               /\ ClippedOnce(run, t) = RunGenerationCapacity(run)
        /\ \E t \in 1..Len(residual_demand_for_hydropower) :
               /\ RLt(residual_demand_for_hydropower[t],
                      RNeg(run.result.total_consumption_capacity))
               /\ ClippedOnce(run, t) = RNeg(run.result.total_consumption_capacity)
        /\ \E t \in 1..Len(residual_demand_for_hydropower) :
               ClippedOnce(run, t) = residual_demand_for_hydropower[t]

----------------------------------------------------------------------------
(* Properties of get_mix_for_highest_resource_adequacy.                    *)

\* The k-th point of the uniform grid from mix_values[0] to mix_values[-1].
GridPoint(k) ==
    RAdd(mix_values[1],
         RDiv(RMul(Q(k - 1), RSub(mix_values[Len(mix_values)], mix_values[1])),
              Q(UpsampledPoints - 1)))

\* The interpolated adequacy at wind fraction v.
Curve(v) == SplineValue(mix_values, resource_adequacy, v)

\* C16: on an increasing axis with finite adequacy values the call returns a
\* point of the uniform grid spanning [mix_values[0], mix_values[-1]], at which
\* the interpolated curve is at least its value at every grid point; among
\* the grid points that tie for the maximum it is the smallest.
C16_OptimalMix ==
    (SplineAccepts(mix_values, resource_adequacy)
         /\ mix_of_max_resource_adequacy.outcome # "not called") =>
        /\ mix_of_max_resource_adequacy.outcome = "returned"
        /\ LET v == mix_of_max_resource_adequacy.value
               best == Curve(v)
           IN  /\ \E k \in 1..UpsampledPoints : v = GridPoint(k)
               /\ RLe(mix_values[1], v) /\ RLe(v, mix_values[Len(mix_values)])
               /\ \A k \in 1..UpsampledPoints :
                      LET y == Curve(GridPoint(k))
                      IN  RLe(y, best) /\ (y = best => RLe(v, GridPoint(k)))

\* A returned maximum strictly inside the axis, tied with another grid point
\* and above the adequacy of a supplied point.
C16_Witness ==
    /\ mix_of_max_resource_adequacy.outcome = "returned"
    /\ RLt(mix_values[1], mix_of_max_resource_adequacy.value)
    /\ RLt(mix_of_max_resource_adequacy.value, mix_values[Len(mix_values)])
    /\ \E i \in 1..Len(mix_values) :
           RLt(resource_adequacy[i], Curve(mix_of_max_resource_adequacy.value))
    /\ \E k \in 1..UpsampledPoints :
           /\ GridPoint(k) # mix_of_max_resource_adequacy.value
           /\ Curve(GridPoint(k)) = Curve(mix_of_max_resource_adequacy.value)

----------------------------------------------------------------------------
(* The hourly step, as stated.                                             *)

\* C17: at every hour of a single-reservoir run, with previous level S,
\* inflow I and request G: S' = min(S + I, upper_bound), the realized
\* generation is min(G, S' - lower_bound) and the new level is S' minus the
\* realized generation; a negative request is realized unchanged.
C17_SingleStep ==
    ~IsTuple(initial_filling_level) =>
        \A t \in Hours :
            LET S == LevelBefore(t)[1]
                after_inflow == RMin(RAdd(S, inflow[t]), filling_level_upper_bound[1])
                realized == RMin(unbounded_generation[t],
                                 RSub(after_inflow, filling_level_lower_bound[1]))
            IN  /\ generation[t] = realized
                /\ filling_level[t] = <<RSub(after_inflow, realized)>>
                /\ RLt(unbounded_generation[t], Q(0)) =>
                       generation[t] = unbounded_generation[t]

\* A single-reservoir run with an hour whose inflow was cut at the upper bound
\* and whose request was cut, and an hour with a negative request.
C17_Witness ==
    /\ ~IsTuple(initial_filling_level)
    /\ \E t \in Hours :
           /\ RGt(RAdd(LevelBefore(t)[1], inflow[t]), filling_level_upper_bound[1])
           /\ RLt(generation[t], unbounded_generation[t])
    /\ \E t \in Hours : RLt(unbounded_generation[t], Q(0))
                         /\ RGt(filling_level[t][1], filling_level_upper_bound[1])

\* Scenario C: upstream [0, 100], downstream [0, 20], state (50, 10), inflow 0
\* and request -15 at the first hour.
ScenarioC ==
    /\ filling_level_lower_bound = <<Q(0), Q(0)>>
    /\ filling_level_upper_bound = <<Q(100), Q(20)>>
    /\ initial_filling_level = <<Q(50), Q(10)>>
    /\ Len(filling_level) >= 1
    /\ inflow[1] = Q(0)
    /\ unbounded_generation[1] = Q(-15)

\* C18: at every hour of a two-reservoir run whose request G is <= 0, the
\* realized generation is max(G, -(S_down - lower_down), -(upper_up - S'_up))
\* with S'_up = min(S_up + I, upper_up), and the new state is
\* (S'_up - G', min(S_down + G', upper_down)); Scenario C realizes -10 and
\* ends in (60, 0).
C18_PumpingStep ==
    IsTuple(initial_filling_level) =>
        /\ \A t \in Hours :
               RLe(unbounded_generation[t], Q(0)) =>
                   LET S == LevelBefore(t)
                       up == RMin(RAdd(S[1], inflow[t]), filling_level_upper_bound[1])
                       realized ==
                           RMax(RMax(unbounded_generation[t],
                                     RNeg(RSub(S[2], filling_level_lower_bound[2]))),
                                RNeg(RSub(filling_level_upper_bound[1], up)))
                   IN  /\ generation[t] = realized
                       /\ filling_level[t] =
                              <<RSub(up, realized),
                                RMin(RAdd(S[2], realized), filling_level_upper_bound[2])>>
        /\ ScenarioC => generation[1] = Q(-10) /\ filling_level[1] = <<Q(60), Q(0)>>

\* Scenario C has run, followed by an hour with request 0 and by a later
\* pumping hour whose request was cut.
C18_Witness ==
    /\ ScenarioC
    /\ \E t \in Hours : unbounded_generation[t] = Q(0) /\ generation[t] = Q(0)
    /\ \E t \in Hours :
           /\ t > 1
           /\ RLt(unbounded_generation[t], Q(0))
           /\ RLt(unbounded_generation[t], generation[t])

\* C19: at every hour of a two-reservoir run whose request G is > 0, the
\* realized generation is min(G, S'_up - lower_up) with
\* S'_up = min(S_up + I, upper_up), whatever the downstream level, and the new
\* state is (S'_up - G', min(S_down + G', upper_down)): the downstream level
\* is cut at its upper bound and the generation is not.
C19_GeneratingStep ==
    IsTuple(initial_filling_level) =>
        \A t \in Hours :
            RGt(unbounded_generation[t], Q(0)) =>
                LET S == LevelBefore(t)
                    up == RMin(RAdd(S[1], inflow[t]), filling_level_upper_bound[1])
                    realized == RMin(unbounded_generation[t],
                                     RSub(up, filling_level_lower_bound[1]))
                IN  /\ generation[t] = realized
                    /\ filling_level[t] =
                           <<RSub(up, realized),
                             RMin(RAdd(S[2], realized), filling_level_upper_bound[2])>>

\* A generating hour cut by the upstream water while the downstream basin had
\* no room for it, and a generating hour realized in full with a full
\* downstream basin.
C19_Witness ==
    /\ IsTuple(initial_filling_level)
    /\ \E t \in Hours :
           /\ RGt(generation[t], Q(0))
           /\ RLt(generation[t], unbounded_generation[t])
           /\ RGt(RAdd(LevelBefore(t)[2], generation[t]), filling_level_upper_bound[2])
           /\ filling_level[t][2] = filling_level_upper_bound[2]
    /\ \E t \in Hours :
           /\ RGt(generation[t], Q(0))
           /\ generation[t] = unbounded_generation[t]
           /\ LevelBefore(t)[2] = filling_level_upper_bound[2]

\* C20: in every run of get_hydropower_generation the series given to the fold
\* lies in [-consumption_capacity, generation_capacity] at every hour, and so
\* does the realized generation, consumption_capacity being the value after
\* the 80% limit.
C20_WithinCapacities ==
    \A run \in hydropower_runs :
        \A t \in 1..Len(run.result.hydropower_generation) :
            /\ Within(run.result.requested[t],
                      RNeg(run.result.total_consumption_capacity),
                      RunGenerationCapacity(run))
            /\ Within(run.result.hydropower_generation[t],
                      RNeg(run.result.total_consumption_capacity),
                      RunGenerationCapacity(run))

\* A pumped-storage run that generated at full capacity at an hour whose
\* residual demand was larger, and pumped at full capacity at another whose
\* surplus was larger.
C20_Witness ==
    \E run \in hydropower_runs :
        /\ RGt(fraction_of_pumped_storage, Q(0))
        /\ \E t \in 1..Len(run.result.hydropower_generation) :
               /\ RGt(residual_demand_for_hydropower[t], RunGenerationCapacity(run))
               /\ run.result.hydropower_generation[t] = RunGenerationCapacity(run)
        /\ \E t \in 1..Len(run.result.hydropower_generation) :
               /\ RLt(residual_demand_for_hydropower[t],
                      RNeg(run.result.total_consumption_capacity))
               /\ run.result.hydropower_generation[t] =
                      RNeg(run.result.total_consumption_capacity)
               /\ RLt(run.result.hydropower_generation[t], Q(0))

----------------------------------------------------------------------------
(* Further properties of the adequacy sweep.                               *)

\* demand - wind - solar at hour t of a call of get_residual_demand
AfterWindAndSolar(r, t) ==
    RSub(RSub(dataset.electricity_demand[t], r.wind_generation[t]), r.solar_generation[t])

\* C21 (as claimed): with simulated hydropower the request given to the
\* dispatch simulator at hour t is demand - wind - solar - run-of-river, and
\* reservoir generation plus run-of-river does not exceed demand - wind -
\* solar at an hour where that is positive.
C21_Request_AsClaimed ==
    \A run \in adequacy_runs :
        ~run.use_actual_hydropower_generation =>
            \A c \in Cells : \A t \in 1..Len(dataset.electricity_demand) :
                LET r == run.result.calls[c]
                IN  /\ r.residual_demand_for_hydropower[t] =
                           RSub(AfterWindAndSolar(r, t), dataset.run_of_river_generation[t])
                    /\ RGt(AfterWindAndSolar(r, t), Q(0)) =>
                           RLe(r.hydropower_generation[t], AfterWindAndSolar(r, t))

----------------------------------------------------------------------------
(* Configuration of the fold by get_hydropower_generation.                 *)

\* The consumption capacity of a run after the 80% limit.
RunConsumptionCapacity(run) ==
    IF RunIsLimited(run) THEN RMul(Frac(4, 5), RunGenerationCapacity(run))
    ELSE RunRequestedConsumption

Readings == {dataset.reservoir_filling_level[k] : k \in 1..Len(dataset.reservoir_filling_level)}

\* C22: with fraction_of_pumped_storage > 0 the fold is run on two basins, the
\* downstream one with upper bound consumption capacity (after the 80% limit)
\* x hours, lower bound 0.1 x upper bound and initial level 0.5 x upper
\* bound, the upstream one starting at the first reading between the smallest
\* and the largest reading; both initial levels lie inside their bounds.
C22_DownstreamConfiguration ==
    RGt(fraction_of_pumped_storage, Q(0)) =>
        \A run \in hydropower_runs :
            LET upper_down == RMul(RunConsumptionCapacity(run),
                                   hours_at_full_power_consumption_capacity)
                initial == run.result.initial_filling_level
                lower == run.result.filling_level_lower_bound
                upper == run.result.filling_level_upper_bound
            IN  /\ Len(initial) = 2 /\ Len(lower) = 2 /\ Len(upper) = 2
                /\ upper[2] = upper_down
                /\ lower[2] = RMul(Frac(1, 10), upper_down)
                /\ initial[2] = RMul(Frac(1, 2), upper_down)
                /\ initial[1] = dataset.reservoir_filling_level[1]
                /\ lower[1] \in Readings /\ \A x \in Readings : RLe(lower[1], x)
                /\ upper[1] \in Readings /\ \A x \in Readings : RLe(x, upper[1])
                /\ \A b \in 1..2 : Within(initial[b], lower[b], upper[b])
                /\ \A t \in 1..Len(run.result.downstream) :
                       Within(run.result.downstream[t], lower[2], upper[2])

\* A run limited by the 80% rule whose downstream basin has room on both
\* sides of its initial level, and whose upstream basin starts strictly
\* inside its bounds.
C22_Witness ==
    /\ RGt(fraction_of_pumped_storage, Q(0))
    /\ \E run \in hydropower_runs :
           /\ RunIsLimited(run)
           /\ RLt(run.result.filling_level_lower_bound[2], run.result.initial_filling_level[2])
           /\ RLt(run.result.initial_filling_level[2], run.result.filling_level_upper_bound[2])
           /\ RLt(run.result.filling_level_lower_bound[1], run.result.initial_filling_level[1])
           /\ RLt(run.result.initial_filling_level[1], run.result.filling_level_upper_bound[1])

----------------------------------------------------------------------------
(* The cells of a sweep evaluated by workers: every worker takes any cell  *)
(* that is left, runs the dispatch fold of that cell hour by hour on its    *)
(* own reservoir state and its own generation list, and writes the cell.   *)

Workers == 1..2

SweepShares == <<Q(1)>>

SweepFractions == <<Q(0), Frac(1, 2), Q(1)>>

SweepCells == (1..Len(SweepShares)) \X (1..Len(SweepFractions))

SweepProfiles ==
    { Hour(Q(10), Frac(1, 2), Q(0), Q(3), Q(0), Q(1), Q(0), Q(5)),
      Hour(Q(10), Q(0), Frac(1, 2), Q(2), Q(2), Q(1), Q(0), Q(0)) }

IdleWorker ==
    [cell |-> <<>>, before_hydropower |-> <<>>, requested |-> <<>>, inflow |-> <<>>,
     lower |-> <<>>, upper |-> <<>>, level |-> <<>>, generation |-> <<>>]

InitWorkers ==
    /\ NoMix
    /\ NoFold
    /\ NoCall
    /\ \E h \in SeriesOf(SweepProfiles, MaxHours), p \in PumpedStorageCapacities :
            /\ dataset = AdequacyBundle(h, p)
            /\ fraction_of_pumped_storage = IF p = Q(0) THEN Q(0) ELSE Q(1)
    /\ residual_demand_for_hydropower = <<>>
    /\ hours_at_full_power_consumption_capacity \in HoursOfAutonomy
    /\ hydropower_runs = {}
    /\ adequacy_runs = {}
    /\ workers = [w \in Workers |-> IdleWorker]
    /\ pending_cells = SweepCells
    /\ sweep_table = <<>>

\* initial=initial_filling_level: the state a worker's fold starts from.
StartingLevelMutant(w, initial) == IF workers[3 - w].cell # <<>> THEN workers[3 - w].level ELSE initial

StartingLevel(w, initial) == initial

\* A worker enters get_residual_demand for a cell: wind and solar generation,
\* the demand left for hydropower, and the arguments of the fold.
TakeCell(w) ==
    /\ workers[w] = IdleWorker
    /\ \E c \in pending_cells :
        /\ pending_cells' = pending_cells \ {c}
        /\ workers' = [workers EXCEPT ![w] =
              Only({ Only({ [cell |-> c,
                             before_hydropower |-> call.residual_demand_for_hydropower,
                             requested |-> fold.requested,
                             inflow |-> fold.inflow,
                             lower |-> fold.filling_level_lower_bound,
                             upper |-> fold.filling_level_upper_bound,
                             level |-> StartingLevel(w, fold.initial_filling_level),
                             generation |-> <<>>] :
                         fold \in { get_hydropower_generation(
                                        call.residual_demand_for_hydropower, dataset,
                                        fraction_of_pumped_storage,
                                        hours_at_full_power_consumption_capacity) } }) :
                     call \in { get_residual_demand(dataset, SweepShares[c[1]],
                                    SweepFractions[c[2]], FALSE,
                                    fraction_of_pumped_storage,
                                    hours_at_full_power_consumption_capacity) } })]
    /\ dataset' = DatasetAfterCall(dataset)
    /\ UNCHANGED sweep_table
    /\ UNCHANGED <<residual_demand_for_hydropower, fraction_of_pumped_storage,
                   hours_at_full_power_consumption_capacity, hydropower_runs, adequacy_runs>>
    /\ UNCHANGED fold_vars
    /\ UNCHANGED call_vars
    /\ UNCHANGED mix_vars

\* One hour of the worker's own fold.
WorkerHour(w) ==
    /\ workers[w] # IdleWorker
    /\ Len(workers[w].generation) < Len(workers[w].requested)
    /\ LET t == Len(workers[w].generation) + 1
           r == clip_filling_level(workers[w].level,
                                   <<workers[w].inflow[t], workers[w].requested[t]>>,
                                   workers[w].lower, workers[w].upper)
       IN  workers' = [workers EXCEPT ![w].level = r.filling_level,
                                      ![w].generation = Append(@, r.generation)]
    /\ UNCHANGED <<pending_cells, sweep_table>>
    /\ UNCHANGED hydro_vars
    /\ UNCHANGED fold_vars
    /\ UNCHANGED call_vars
    /\ UNCHANGED mix_vars

\* The fold of the worker returned: run-of-river generation is added, the
\* residual demand and the cell of the table follow.
FinishCell(w) ==
    /\ workers[w] # IdleWorker
    /\ Len(workers[w].generation) = Len(workers[w].requested)
    /\ LET hydropower_generation ==
               AddRunOfRiver([hydropower_generation |-> workers[w].generation], dataset)
           residual_demand ==
               [t \in 1..Len(hydropower_generation) |->
                   RSub(workers[w].before_hydropower[t], hydropower_generation[t])]
           adequacy == AdequacyOf(UnmetDemand(residual_demand), dataset)
       IN  sweep_table' = [c \in DOMAIN sweep_table \cup {workers[w].cell} |->
                              IF c = workers[w].cell THEN adequacy ELSE sweep_table[c]]
    /\ workers' = [workers EXCEPT ![w] = IdleWorker]
    /\ UNCHANGED pending_cells
    /\ UNCHANGED hydro_vars
    /\ UNCHANGED fold_vars
    /\ UNCHANGED call_vars
    /\ UNCHANGED mix_vars

NextWorkers == \E w \in Workers : TakeCell(w) \/ WorkerHour(w) \/ FinishCell(w)

SpecWorkers == InitWorkers /\ [][NextWorkers]_vars

----------------------------------------------------------------------------
(* Independence of the cells of a sweep.                                   *)

SequentialSweep ==
    get_resource_adequacy(dataset, SweepShares, SweepFractions, FALSE,
                          fraction_of_pumped_storage,
                          hours_at_full_power_consumption_capacity).resource_adequacy

SingleCellSweep(c) ==
    get_resource_adequacy(dataset, <<SweepShares[c[1]]>>, <<SweepFractions[c[2]]>>, FALSE,
                          fraction_of_pumped_storage,
                          hours_at_full_power_consumption_capacity).resource_adequacy[<<1, 1>>]

\* C23: whatever the order in which the workers took the cells and however
\* the hours of their folds interleaved, every cell a worker writes equals
\* the cell of the sequential nested loop over the whole lists, and equals
\* the only cell of a sweep over the one-element lists [share i],
\* [wind fraction j].
C23_CellsIndependent ==
    [][\A c \in DOMAIN sweep_table' \ DOMAIN sweep_table :
           /\ sweep_table'[c] = SequentialSweep[c]
           /\ sweep_table'[c] = SingleCellSweep(c)]_vars

\* The whole table was written by the workers, and its cells are not all alike.
C23_Witness ==
    /\ pending_cells = {}
    /\ sweep_table # <<>>
    /\ DOMAIN sweep_table = SweepCells
    /\ \E c, d \in SweepCells : sweep_table[c] # sweep_table[d]
    /\ \E c \in SweepCells : RLt(Q(0), sweep_table[c]) /\ RLt(sweep_table[c], Q(1))

----------------------------------------------------------------------------
(* No lookahead in the fold.                                               *)

\* The whole fold on given series, from the initial level of the state.
RunOn(inflow_series, unbounded_series) ==
    get_generation_and_filling_level(inflow_series, unbounded_series,
        initial_filling_level, filling_level_lower_bound, filling_level_upper_bound)

\* Two runs give the same generation and the same levels at hours 1..t.
AgreeUpTo(t, first, second) ==
    \A k \in 1..t :
        /\ first.generation[k] = second.generation[k]
        /\ first.filling_level[k] = second.filling_level[k]

\* C24: whatever hour follows the hours dispatched so far, the fold over the
\* whole longer series gives at the earlier hours the generation and the
\* levels that were obtained before the new hour was known, so two runs that
\* agree on the inputs of hours 1..t agree on the outputs of hours 1..t; and
\* the outputs of the new hour are those of one step from the previous level
\* with the inflow and the request of that hour.
C24_NoLookahead ==
    [][Only({ /\ Len(run.generation) = Len(inflow) + 1
              /\ AgreeUpTo(Len(inflow), run, [generation |-> generation,
                                              filling_level |-> filling_level])
              /\ AgreeUpTo(Len(inflow) + 1, run, [generation |-> generation',
                                                  filling_level |-> filling_level'])
              /\ Last(generation') =
                     clip_filling_level(PreviousLevel,
                         <<Last(inflow'), Last(unbounded_generation')>>,
                         filling_level_lower_bound,
                         filling_level_upper_bound).generation :
              run \in {RunOn(inflow', unbounded_generation')} })]_vars

\* Two hours were dispatched after a first hour with a non-zero generation,
\* and the later hours differ from the first one in inflow and in request.
C24_Witness ==
    /\ Len(generation) = MaxHours
    /\ generation[1] # Q(0)
    /\ \E t \in 2..MaxHours :
           /\ inflow[t] # inflow[1]
           /\ unbounded_generation[t] # unbounded_generation[1]
           /\ generation[t] # generation[1]

----------------------------------------------------------------------------
(* The fold takes one step per hour and returns one value per hour.        *)

\* The step of hour k of a returned run, from the level the run had before it.
StepOfHour(run, k) ==
    clip_filling_level(IF k = 1 THEN initial_filling_level ELSE run.filling_level[k - 1],
                       <<inflow[k], unbounded_generation[k]>>,
                       filling_level_lower_bound, filling_level_upper_bound)

\* C25: a call on N hours returns N generation values and N filling levels,
\* the k-th being the result of the step of hour k taken from the level after
\* hour k - 1 (the initial level for k = 1, which is itself not returned);
\* while a call runs it has taken as many steps as it has produced values; and
\* a later call starts again from the initial level, not from the level the
\* previous call ended with.
C25_OneStepPerHour ==
    /\ Len(generation) = Len(filling_level)
    /\ Len(filling_level) <= Len(inflow)
    /\ \A c \in 1..Len(completed_folds) :
           LET run == completed_folds[c]
           IN  /\ Len(inflow) = MaxHours
               /\ Len(run.generation) = Len(inflow)
               /\ Len(run.filling_level) = Len(inflow)
               /\ \A k \in 1..Len(inflow) :
                      /\ run.filling_level[k] = StepOfHour(run, k).filling_level
                      /\ run.generation[k] = StepOfHour(run, k).generation
    /\ (completed_folds # <<>> /\ filling_level # <<>>) =>
           filling_level[1] =
               clip_filling_level(initial_filling_level, <<inflow[1], unbounded_generation[1]>>,
                                  filling_level_lower_bound,
                                  filling_level_upper_bound).filling_level

\* A call returned with a final level other than the initial level, and a
\* later call has dispatched its first hour.
C25_Witness ==
    /\ completed_folds # <<>>
    /\ Last(completed_folds[1].filling_level) # initial_filling_level
    /\ completed_folds[1].filling_level[1] # initial_filling_level
    /\ fold_active
    /\ filling_level # <<>>

----------------------------------------------------------------------------
(* The realized generation against the request.                            *)

\* C26: from initial levels inside the bounds and with non-negative inflow,
\* at every hour of a two-reservoir run a positive request G is realized as
\* 0 <= G' <= G and a non-positive request as G <= G' <= 0; at every hour of
\* a single-reservoir run a non-negative request is realized as 0 <= G' <= G.
C26_NoOvershootNoReversal ==
    \A t \in Hours :
        LET G == unbounded_generation[t]
            realized == generation[t]
        IN  /\ (IsTuple(initial_filling_level) /\ RGt(G, Q(0))) =>
                   RLe(Q(0), realized) /\ RLe(realized, G)
            /\ (IsTuple(initial_filling_level) /\ RLe(G, Q(0))) =>
                   RLe(G, realized) /\ RLe(realized, Q(0))
            /\ (~IsTuple(initial_filling_level) /\ RGe(G, Q(0))) =>
                   RLe(Q(0), realized) /\ RLe(realized, G)

\* A two-reservoir run with a generating hour and a pumping hour both cut
\* strictly between zero and the request, or a single-reservoir run that
\* generates less than requested after an hour of negative request.
C26_Witness ==
    \/ /\ IsTuple(initial_filling_level)
       /\ \E t, u \in Hours :
              /\ RLt(Q(0), generation[t]) /\ RLt(generation[t], unbounded_generation[t])
              /\ RLt(unbounded_generation[u], generation[u]) /\ RLt(generation[u], Q(0))
    \/ /\ ~IsTuple(initial_filling_level)
       /\ \E t, u \in Hours :
              /\ u < t
              /\ RLt(unbounded_generation[u], Q(0))
              /\ RLt(Q(0), generation[t]) /\ RLt(generation[t], unbounded_generation[t])

----------------------------------------------------------------------------
(* The delay of the inflow.                                                *)

\* The bundle with another inflow at its last hour.
WithLastInflow(bundle, value) ==
    [bundle EXCEPT !.inflow = [t \in 1..Len(bundle.inflow) |->
                                  IF t = Len(bundle.inflow) THEN value ELSE bundle.inflow[t]]]

\* get_hydropower_generation on the demand a worker's cell leaves for hydropower.
HydropowerOf(w, bundle) ==
    get_hydropower_generation(workers[w].before_hydropower, bundle,
                              fraction_of_pumped_storage,
                              hours_at_full_power_consumption_capacity)

\* C27: the inflow series handed to the fold is zero at the first hour and
\* the bundle's inflow of hour t - 1 at every later hour t, its sum is the
\* sum of the bundle's inflow minus the value of the last hour, and the call
\* returns the same generation and the same levels whatever the bundle's
\* inflow at the last hour is.
C27_InflowDelayed ==
    \A w \in DOMAIN workers :
        workers[w].cell # <<>> =>
            LET fed == workers[w].inflow
                N == Len(dataset.inflow)
            IN  /\ Len(fed) = N
                /\ fed[1] = Q(0)
                /\ \A t \in 2..N : fed[t] = dataset.inflow[t - 1]
                /\ RSum(fed) = RSub(RSum(dataset.inflow), dataset.inflow[N])
                /\ \A value \in {Q(0), Q(5), Q(10)} \ {dataset.inflow[N]} :
                       HydropowerOf(w, WithLastInflow(dataset, value)) =
                           HydropowerOf(w, dataset)

\* A worker on a bundle with inflow at the first and at the last hour, whose
\* second hour generated less than requested for lack of water.
C27_Witness ==
    \E w \in DOMAIN workers :
        /\ workers[w].cell # <<>>
        /\ RGt(dataset.inflow[1], Q(0))
        /\ RGt(Last(dataset.inflow), Q(0))
        /\ Len(workers[w].generation) >= 2
        /\ RLt(Q(0), workers[w].generation[2])
        /\ RLt(workers[w].generation[2], workers[w].requested[2])

----------------------------------------------------------------------------
(* get_hydropower_generation without pumped storage.                       *)

\* C28: in a run with fraction_of_pumped_storage = 0 the consumption capacity
\* is 0, every request handed to the fold is >= 0, the fold is the
\* single-reservoir one, the realized generation is >= 0 at every hour, the
\* upstream level lies between the smallest and the largest metered reading
\* at every hour, and the reported downstream level is 0 at every hour.
C28_ConventionalOnly ==
    fraction_of_pumped_storage = Q(0) =>
        \A run \in hydropower_runs :
            /\ run.result.total_consumption_capacity = Q(0)
            /\ Len(run.result.initial_filling_level) = 1
            /\ \A t \in 1..Len(run.result.requested) :
                   /\ RGe(run.result.requested[t], Q(0))
                   /\ RGe(run.result.hydropower_generation[t], Q(0))
                   /\ \A low, high \in Readings :
                          (\A r \in Readings : RLe(low, r) /\ RLe(r, high)) =>
                              Within(run.result.upstream[t], low, high)
                   /\ run.result.downstream[t] = Q(0)

\* A run without pumped storage on a bundle that has pumped-storage plants,
\* with a negative residual demand at one hour and a generating hour that
\* was cut for lack of water.
C28_Witness ==
    /\ fraction_of_pumped_storage = Q(0)
    /\ RGt(dataset.pumped_storage_consumption_capacity, Q(0))
    /\ \E run \in hydropower_runs : \E t, u \in 1..Len(run.result.requested) :
           /\ RLt(residual_demand_for_hydropower[t], Q(0))
           /\ run.result.requested[t] = Q(0)
           /\ RLt(Q(0), run.result.hydropower_generation[u])
           /\ RLt(run.result.hydropower_generation[u], run.result.requested[u])

----------------------------------------------------------------------------
(* Simulated hydropower with and without pumped storage.                   *)

\* The sweep with simulated hydropower and no pumped storage on the bundle.
ConventionalOnlySweep ==
    get_resource_adequacy(dataset, WindAndSolarGenerationFractions, WindGenerationFractions,
                          FALSE, Q(0), hours_at_full_power_consumption_capacity)

\* get_hydropower_generation for the demand left in a cell, with the given fraction.
HydropowerIn(call, fraction) ==
    get_hydropower_generation(call.residual_demand_for_hydropower, dataset, fraction,
                              hours_at_full_power_consumption_capacity)

AdequacyNotLower(with_pumped_storage, conventional) ==
    \A c \in Cells :
        RGe(with_pumped_storage.resource_adequacy[c], conventional.resource_adequacy[c])

LevelsNotLower(with_pumped_storage, conventional) ==
    \A c \in Cells :
        LET pumped == HydropowerIn(with_pumped_storage.calls[c], fraction_of_pumped_storage)
            plain == HydropowerIn(conventional.calls[c], Q(0))
        IN  \A t \in 1..Len(pumped.upstream) :
                /\ RGe(pumped.upstream[t], plain.upstream[t])
                /\ RGt(pumped.requested[t], Q(0)) =>
                       RGe(pumped.hydropower_generation[t], plain.hydropower_generation[t])

\* C29 (as claimed): on every bundle, in simulated mode with
\* fraction_of_pumped_storage > 0 every cell of the table is at least the cell
\* computed with fraction_of_pumped_storage = 0, the upstream level is at
\* every hour at least that of the conventional-only run, and so is the
\* generation at every generating hour.
C29_PumpedStorageNeverLowers_AsClaimed ==
    RGt(fraction_of_pumped_storage, Q(0)) =>
        \A run \in adequacy_runs :
            ~run.use_actual_hydropower_generation =>
                Only({ /\ AdequacyNotLower(run.result, conventional)
                       /\ LevelsNotLower(run.result, conventional) :
                       conventional \in {ConventionalOnlySweep} })

----------------------------------------------------------------------------
(* Energy balance of the two basins.                                       *)

\* min(S_up,t-1 + I_t, upper_up) + S_down,t-1
EnergyBefore(t) ==
    RAdd(RMin(RAdd(LevelBefore(t)[1], inflow[t]), filling_level_upper_bound[1]),
         LevelBefore(t)[2])

\* S_up,t + S_down,t
EnergyAfter(t) == RAdd(filling_level[t][1], filling_level[t][2])

\* C30: in a two-reservoir run started inside the bounds, at every hour with
\* a request G <= 0 the sum of the two levels after the hour equals the
\* upstream level after inflow plus the downstream level before the hour; at
\* every hour with G > 0 the sum is at most that, and equal exactly when the
\* downstream level before the hour plus the realized generation does not
\* exceed the downstream upper bound.
C30_EnergyBalance ==
    IsTuple(initial_filling_level) =>
        \A t \in Hours :
            /\ RLe(unbounded_generation[t], Q(0)) => EnergyAfter(t) = EnergyBefore(t)
            /\ RGt(unbounded_generation[t], Q(0)) =>
                   /\ RLe(EnergyAfter(t), EnergyBefore(t))
                   /\ (EnergyAfter(t) = EnergyBefore(t)) <=>
                          RLe(RAdd(LevelBefore(t)[2], generation[t]),
                              filling_level_upper_bound[2])

\* A run with a pumping hour that moved energy uphill, a generating hour that
\* kept the sum, and a generating hour that lost energy at the downstream
\* upper bound.
C30_Witness ==
    /\ IsTuple(initial_filling_level)
    /\ \E t, u, v \in Hours :
           /\ RLt(generation[t], Q(0))
           /\ RGt(generation[u], Q(0)) /\ EnergyAfter(u) = EnergyBefore(u)
           /\ RGt(generation[v], Q(0)) /\ RLt(EnergyAfter(v), EnergyBefore(v))

====
